---- MODULE Spec2Model ----
(***************************************************************************)
(* Verification model of smart-turn-go:                                    *)
(*   - validateConfig                 (config validation)                  *)
(*   - getMelFilterbank               (process-wide filterbank cache)      *)
(*   - computeWhisperMel / ...FromPadded (feature extractor)               *)
(*   - downloadFile / Resolve*        (model and runtime resolver)         *)
(* Each part has its own variables and its own specification; a            *)
(* specification leaves the other parts' variables at their idle values.   *)
(***************************************************************************)
EXTENDS Integers, Sequences, FiniteSets, TLC

VARIABLES
    \* ---- validateConfig
    cfg,            \* the Config value handed to validateConfig
    cfgPc,          \* "call" | "done"
    cfgErr,         \* the error validateConfig returned (NoError for nil)
    \* ---- getMelFilterbank
    cachedMelFilters, \* the package variable: a slice header [ptr, len]
    gPc,            \* per goroutine: where it is in getMelFilterbank
    gCalls,         \* per goroutine: calls of getMelFilterbank made so far
    gLeft,          \* per goroutine: header words of its store still to write
    gRet,           \* per goroutine: the slice its last call returned
    cacheStores,    \* executions of the statement cachedMelFilters = filters
    \* ---- computeWhisperMel, buffer lengths and the framing loop
    audioLen,       \* len(audio) of the argument
    winLen,         \* len(audio) after the slice to the last 8 s
    paddedLen,      \* len(padded)
    melLen,         \* len(mel)
    frameT,         \* the loop variable t of the framing loop
    framesDone,     \* the columns t the loop has written
    outLen,         \* len of the returned slice
    silentNil,      \* computeWhisperMelFromPadded took its len(padded) mismatch return
    panicked,       \* an index went out of range
    xPc,            \* where the call is
    \* ---- computeWhisperMel, sample values (at a small size)
    audio,          \* the argument: a sequence of samples
    used,           \* audio after the slice to the last window
    mean,           \* the mean, a fraction [num, den]
    variance,       \* the variance before its floor, a fraction [num, den]
    padded,         \* the padded buffer, values in hundredths
    mel,            \* the log-mel matrix, row-major, in log10 units
    result,         \* the returned matrix, values in quarters
    melT,           \* the loop variable t
    mPc,            \* where the call is
    \* ---- resolver: downloadFile, Resolve*
    env,            \* what a run fixes: entry point, GOOS/GOARCH, dir, cwd, ...
    names,          \* the directory entries: path -> inode
    inodes,         \* the files: inode -> content (1 a byte of the body, 0 a hole)
    call            \* per caller: the locals of its Resolve* / downloadFile call

cfgVars == <<cfg, cfgPc, cfgErr>>

cacheVars == <<cachedMelFilters, gPc, gCalls, gLeft, gRet, cacheStores>>

lenVars == <<audioLen, winLen, paddedLen, melLen, frameT, framesDone, outLen,
             silentNil, panicked, xPc>>

melVars == <<audio, used, mean, variance, padded, mel, result, melT, mPc>>

resVars == <<env, names, inodes, call>>

vars == <<cfgVars, cacheVars, lenVars, melVars, resVars>>

\* What the steps of one part leave alone: the variables of the other parts.
notCfg == <<cacheVars, lenVars, melVars, resVars>>

notCache == <<cfgVars, lenVars, melVars, resVars>>

notLen == <<cfgVars, cacheVars, melVars, resVars>>

notMel == <<cfgVars, cacheVars, lenVars, resVars>>

notRes == <<cfgVars, cacheVars, lenVars, melVars>>

(***************************************************************************)
(* float32 values.  A float is either NaN or a number, kept in tenths      *)
(* (x = 15 is 1.5).  Comparisons follow IEEE 754 as Go implements them:    *)
(* every ordered comparison with NaN is false.                             *)
(***************************************************************************)
F(x) == [nan |-> FALSE, x |-> x]

NaN == [nan |-> TRUE, x |-> 0]

FLess(a, b) == ~a.nan /\ ~b.nan /\ a.x < b.x

FGreater(a, b) == ~a.nan /\ ~b.nan /\ a.x > b.x

FLessEq(a, b) == ~a.nan /\ ~b.nan /\ a.x <= b.x

(***************************************************************************)
(* getMelFilterbank and the package variable cachedMelFilters.             *)
(* A slice variable is a multi-word header; Go gives no atomicity for it,  *)
(* so a store writes its words one at a time, in an order the build        *)
(* chooses, and a load reads the word it tests.  Goroutines are the        *)
(* engines that run computeWhisperMel at the same time.                    *)
(***************************************************************************)
whisperNFFT == 400

whisperHop == 160

whisperNMels == 80

whisper8sSamples == 128000

whisper8sFrames == 800

NGoroutines == 2

MaxCalls == 2

Goroutines == 1..NGoroutines

\* nBins := whisperNFFT/2 + 1
nBins == (whisperNFFT \div 2) + 1

NilSlice == [ptr |-> 0, len |-> 0]

\* filters := make([]float32, nMels*nBins), filled; ptr names the allocation.
NewFilters(g, k, nMels, bins) == [ptr |-> 10 * g + k, len |-> nMels * bins]

CacheInit ==
    /\ cachedMelFilters = NilSlice
    /\ gPc = [g \in Goroutines |-> "idle"]
    /\ gCalls = [g \in Goroutines |-> 0]
    /\ gLeft = [g \in Goroutines |-> {}]
    /\ gRet = [g \in Goroutines |-> NilSlice]
    /\ cacheStores = 0

CacheIdle ==
    /\ cachedMelFilters = NilSlice
    /\ gPc = <<>>
    /\ gCalls = <<>>
    /\ gLeft = <<>>
    /\ gRet = <<>>
    /\ cacheStores = 0

\* computeWhisperMelFromPadded line 75: filters := getMelFilterbank(whisperNMels, nBins)
CallGetMelFilterbank(g) ==
    /\ gPc[g] = "idle"
    /\ gCalls[g] < MaxCalls
    /\ gCalls' = [gCalls EXCEPT ![g] = @ + 1]
    /\ gPc' = [gPc EXCEPT ![g] = "testNil"]
    /\ UNCHANGED <<cachedMelFilters, gLeft, gRet, cacheStores, notCache>>

\* line 137, left operand: cachedMelFilters != nil
TestNil(g) ==
    /\ gPc[g] = "testNil"
    /\ gPc' = [gPc EXCEPT ![g] = IF cachedMelFilters.ptr # 0 THEN "testLen" ELSE "build"]
    /\ UNCHANGED <<cachedMelFilters, gCalls, gLeft, gRet, cacheStores, notCache>>

\* line 137, right operand: len(cachedMelFilters) == nMels*nBins
TestLen(g) ==
    /\ gPc[g] = "testLen"
    /\ gPc' = [gPc EXCEPT ![g] =
                 IF cachedMelFilters.len = whisperNMels * nBins THEN "hit" ELSE "build"]
    /\ UNCHANGED <<cachedMelFilters, gCalls, gLeft, gRet, cacheStores, notCache>>

\* line 138: return cachedMelFilters
ReturnCached(g) ==
    /\ gPc[g] = "hit"
    /\ gRet' = [gRet EXCEPT ![g] = cachedMelFilters]
    /\ gPc' = [gPc EXCEPT ![g] = "idle"]
    /\ UNCHANGED <<cachedMelFilters, gCalls, gLeft, cacheStores, notCache>>

\* lines 142-174: build the filterbank in a local slice
BuildFilters(g) ==
    /\ gPc[g] = "build"
    /\ gRet' = [gRet EXCEPT ![g] = NewFilters(g, gCalls[g], whisperNMels, nBins)]
    /\ gLeft' = [gLeft EXCEPT ![g] = {"ptr", "len"}]
    /\ gPc' = [gPc EXCEPT ![g] = "store"]
    /\ UNCHANGED <<cachedMelFilters, gCalls, cacheStores, notCache>>

\* line 175: cachedMelFilters = filters, one header word per step;
\* line 176: return filters, once the last word is written
StoreCache(g) ==
    /\ gPc[g] = "store"
    /\ \E w \in gLeft[g] :
         /\ cachedMelFilters' =
              IF w = "ptr" THEN [cachedMelFilters EXCEPT !.ptr = gRet[g].ptr]
              ELSE [cachedMelFilters EXCEPT !.len = gRet[g].len]
         /\ gLeft' = [gLeft EXCEPT ![g] = @ \ {w}]
         /\ gPc' = [gPc EXCEPT ![g] = IF gLeft[g] = {w} THEN "idle" ELSE "store"]
    /\ cacheStores' = IF gLeft[g] = {"ptr", "len"} THEN cacheStores + 1 ELSE cacheStores
    /\ UNCHANGED <<gCalls, gRet, notCache>>

CacheNext ==
    \E g \in Goroutines :
        \/ CallGetMelFilterbank(g)
        \/ TestNil(g)
        \/ TestLen(g)
        \/ ReturnCached(g)
        \/ BuildFilters(g)
        \/ StoreCache(g)

(***************************************************************************)
(* Claim C4.  No synchronisation orders the goroutines, so two accesses    *)
(* of different goroutines race when both are the next step of their       *)
(* goroutine and one of them is a store.                                   *)
(***************************************************************************)
NextIsLoad(g) == gPc[g] \in {"testNil", "testLen", "hit"}

NextIsStore(g) == gPc[g] = "store"

DataRace ==
    \E a, b \in Goroutines :
        a # b /\ NextIsStore(a) /\ (NextIsLoad(b) \/ NextIsStore(b))

\* C4: the first construction of the cached filterbank is race-free (no
\* unsynchronised load/store or store/store of cachedMelFilters), and the
\* variable is stored at most once.
C4_RaceFreeWriteOnce == ~DataRace /\ cacheStores <= 1

\* The two halves of C4, each on its own.
C4_NoDataRace == ~DataRace

C4_WriteOnce == cacheStores <= 1

(***************************************************************************)
(* computeWhisperMel and computeWhisperMelFromPadded at the program's real *)
(* sizes: the lengths of the buffers and the bounds of the framing loop.   *)
(* (The sample values are modelled separately, at a small size.)           *)
(***************************************************************************)
\* The input lengths tried: empty, shorter than a frame, a frame, just under,
\* exactly and over the 8 s window.
InputLens ==
    {0, 1, whisperNFFT - 1, whisperNFFT, whisper8sSamples - 1, whisper8sSamples,
     whisper8sSamples + 1, 2 * whisper8sSamples}

\* line 30: audio = audio[len(audio)-whisper8sSamples:] when it is longer
SliceLen(n) == IF n > whisper8sSamples THEN n - (n - whisper8sSamples) ELSE n

\* A buffer made as long as the samples it is given.
MakePaddedLenOfInput(n) == n

\* line 49: padded := make([]float32, whisper8sSamples)
MakePaddedLen(n) == whisper8sSamples

\* lines 50-59: the highest index of padded written, plus one
PaddedWriteEnd(n) ==
    IF n >= whisper8sSamples THEN whisper8sSamples
    ELSE (whisper8sSamples - n) + n

\* line 79: offset+whisperNFFT > len(padded)
FrameOutOfRange(t, plen) == t * whisperHop + whisperNFFT > plen

LenInit ==
    /\ audioLen \in InputLens
    /\ winLen = 0
    /\ paddedLen = 0
    /\ melLen = 0
    /\ frameT = 0
    /\ framesDone = {}
    /\ outLen = 0
    /\ silentNil = FALSE
    /\ panicked = FALSE
    /\ xPc = "call"

LenIdle ==
    /\ audioLen = 0
    /\ winLen = 0
    /\ paddedLen = 0
    /\ melLen = 0
    /\ frameT = 0
    /\ framesDone = {}
    /\ outLen = 0
    /\ silentNil = FALSE
    /\ panicked = FALSE
    /\ xPc = "idle"

\* lines 25-31: the empty input returns nil; a longer input is cut to its tail
MelEnter ==
    /\ xPc = "call"
    /\ IF audioLen = 0
         THEN /\ outLen' = 0
              /\ xPc' = "done"
              /\ UNCHANGED winLen
         ELSE /\ winLen' = SliceLen(audioLen)
              /\ xPc' = "normalize"
              /\ UNCHANGED outLen
    /\ UNCHANGED <<audioLen, paddedLen, melLen, frameT, framesDone, silentNil,
                   panicked, notLen>>

\* lines 33-60: mean, variance, scale; padded is made and filled
MelNormalize ==
    /\ xPc = "normalize"
    /\ paddedLen' = MakePaddedLen(winLen)
    /\ IF PaddedWriteEnd(winLen) > paddedLen'
         THEN /\ panicked' = TRUE
              /\ xPc' = "done"
         ELSE /\ xPc' = "fromPadded"
              /\ UNCHANGED panicked
    /\ UNCHANGED <<audioLen, winLen, melLen, frameT, framesDone, outLen, silentNil,
                   notLen>>

\* lines 64-76: the length test, then mel, window, filters, fftBuf
FromPaddedEnter ==
    /\ xPc = "fromPadded"
    /\ IF paddedLen # whisper8sSamples
         THEN /\ silentNil' = TRUE
              /\ outLen' = 0
              /\ xPc' = "done"
              /\ UNCHANGED <<melLen, frameT>>
         ELSE /\ melLen' = whisperNMels * whisper8sFrames
              /\ frameT' = 0
              /\ xPc' = "frames"
              /\ UNCHANGED <<silentNil, outLen>>
    /\ UNCHANGED <<audioLen, winLen, paddedLen, framesDone, panicked, notLen>>

\* lines 77-98: one pass of the loop: its test, its break, or column t
FrameLoop ==
    /\ xPc = "frames"
    /\ IF frameT < whisper8sFrames /\ ~FrameOutOfRange(frameT, paddedLen)
         THEN /\ framesDone' = framesDone \cup {frameT}
              /\ frameT' = frameT + 1
              /\ panicked' = (panicked \/ (whisperNMels - 1) * whisper8sFrames + frameT >= melLen)
              /\ UNCHANGED xPc
         ELSE /\ xPc' = "compress"
              /\ UNCHANGED <<framesDone, frameT, panicked>>
    /\ UNCHANGED <<audioLen, winLen, paddedLen, melLen, outLen, silentNil, notLen>>

\* lines 102-115: max, clamp, rescale in place; return mel
CompressLen ==
    /\ xPc = "compress"
    /\ outLen' = melLen
    /\ xPc' = "done"
    /\ UNCHANGED <<audioLen, winLen, paddedLen, melLen, frameT, framesDone, silentNil,
                   panicked, notLen>>

LenNext == MelEnter \/ MelNormalize \/ FromPaddedEnter \/ FrameLoop \/ CompressLen

(***************************************************************************)
(* Claims C6 and C8.                                                       *)
(***************************************************************************)
\* C6: computeWhisperMel never fails; an empty input gives an empty result,
\* every other input gives 80*800 values; padded always has 128,000 samples,
\* so the silent nil return of computeWhisperMelFromPadded is never taken.
C6_ResultLength ==
    /\ ~panicked
    /\ ~silentNil
    /\ xPc \in {"fromPadded", "frames", "compress"} => paddedLen = 128000
    /\ xPc = "done" => outLen = (IF audioLen = 0 THEN 0 ELSE 64000)

\* A one-sample input has gone through the whole extractor.
C6_Witness == xPc = "done" /\ audioLen = 1 /\ outLen = 64000 /\ paddedLen = 128000

\* C8: the framing loop computes every column t = 0..799 of the matrix.
C8_AllFramesComputed ==
    (xPc = "done" /\ audioLen > 0) => framesDone = 0..799

\* What the loop does compute: it stops at the first window that would run
\* past the buffer, t = 798 (798*160 + 400 = 128,080 > 128,000).
C8_Computes798 ==
    (xPc = "done" /\ audioLen > 0) => framesDone = 0..797

(***************************************************************************)
(* computeWhisperMel with sample values, at a small size: a window of      *)
(* WinSamples samples, frames of FrameLen samples every FrameHop samples,  *)
(* NumFrames columns and NumMels rows.  Samples are integers; normalised   *)
(* samples are kept in hundredths, truncated as a float conversion does.   *)
(* The spectrum of a frame is not computed: a frame whose samples are all  *)
(* zero has power 0 in every bin, so every band is at the 1e-10 floor and  *)
(* its log is -10; any other frame may give each band any log value the    *)
(* floor allows.                                                           *)
(***************************************************************************)
WinSamples == 4

FrameLen == 2

FrameHop == 1

NumFrames == 4

NumMels == 2

MaxExtra == 1

\* Sample values of the inputs tried.
NormSampleValues == {0, 1, 3}

MelSampleValues == {0, 1}

\* log10 of a band's value, which the code floors at 1e-10 (lines 92-96)
LogFloor == -10

LogValues == {LogFloor, -8, -6, 1}

SeqsUpTo(S, n) == UNION {[1..k -> S] : k \in 0..n}

RECURSIVE SumSeq(_)
SumSeq(q) == IF q = <<>> THEN 0 ELSE Head(q) + SumSeq(Tail(q))

\* integer division truncating toward zero, as a float-to-fixed conversion
TruncDiv(a, b) == IF a >= 0 THEN a \div b ELSE -((-a) \div b)

RECURSIVE SqrtSearch(_, _, _)
SqrtSearch(v, lo, hi) ==
    IF lo >= hi THEN lo
    ELSE LET mid == (lo + hi + 1) \div 2
         IN  IF mid * mid <= v THEN SqrtSearch(v, mid, hi)
             ELSE SqrtSearch(v, lo, mid - 1)

\* math.Sqrt on a non-negative integer, rounded down
ISqrt(v) == SqrtSearch(v, 0, 46340)

\* The head of a longer input instead of its tail.
FirstWindow(a) == IF Len(a) > WinSamples THEN SubSeq(a, 1, WinSamples) ELSE a

\* lines 29-31: audio[len(audio)-whisper8sSamples:] when audio is longer
LastWindow(a) ==
    IF Len(a) > WinSamples
      THEN SubSeq(a, Len(a) - WinSamples + 1, Len(a))
      ELSE a

\* lines 33-37: mean = sum / len
MeanOf(a) == [num |-> SumSeq(a), den |-> Len(a)]

\* lines 38-43: variance = sum of (v - mean)^2 / len; with mean = S/n each
\* difference is (n*v - S)/n, so the variance is sum (n*v - S)^2 / n^3
VarianceOf(a) ==
    LET n == Len(a)
        S == SumSeq(a)
    IN  [num |-> SumSeq([i \in 1..n |-> (n * a[i] - S) * (n * a[i] - S)]),
         den |-> n * n * n]

\* line 44: variance < 1e-7, for a fraction num/den of integers
VarianceFloorInv == 10000000

BelowFloor(v) == v.num <= (v.den - 1) \div VarianceFloorInv

\* line 47 with the floored variance: 1 / sqrt(1e-7), in hundredths
FloorScale == 316227

\* lines 52, 57: float32((float64(audio[i]) - mean) * scale), in hundredths.
\* (v - mean) * scale = ((n*v - S)/n) / sqrt(Q/n^3) = (n*v - S) * sqrt(n/Q).
Normalized(v, m, var) ==
    LET d == m.den * v - m.num
    IN  IF BelowFloor(var)
          THEN TruncDiv(d * FloorScale, m.den)
          ELSE (IF d < 0 THEN -1 ELSE 1) * ISqrt((d * d * m.den * 10000) \div var.num)

\* line 55: offset := whisper8sSamples - len(audio)
PadOffset(n) == WinSamples - n

\* lines 49-59: make, then fill from the front (full window) or right-aligned
PaddedOf(a, m, var) ==
    [i \in 1..WinSamples |->
        IF Len(a) >= WinSamples
          THEN Normalized(a[i], m, var)
          ELSE IF i > PadOffset(Len(a))
                 THEN Normalized(a[i - PadOffset(Len(a))], m, var)
                 ELSE 0]

\* lines 82-85: the samples frame t reads
FrameSamples(p, t) == [i \in 1..FrameLen |-> p[t * FrameHop + i]]

\* lines 86-97: the log-mel values frame t may give, one per band
ColumnsOf(p, t) ==
    IF \A i \in 1..FrameLen : FrameSamples(p, t)[i] = 0
      THEN {[m \in 0..(NumMels - 1) |-> LogFloor]}
      ELSE [0..(NumMels - 1) -> LogValues]

\* line 96: mel[m*whisper8sFrames+t] = ..., for every band m
WithColumn(ml, t, col) ==
    [j \in 1..Len(ml) |->
        IF (j - 1) % NumFrames = t THEN col[(j - 1) \div NumFrames] ELSE ml[j]]

\* lines 102-107: maxVal := float32(-1e30), then the maximum of mel
MinusHuge == -1000000

RECURSIVE MaxFrom(_, _)
MaxFrom(q, acc) ==
    IF q = <<>> THEN acc
    ELSE MaxFrom(Tail(q), IF Head(q) > acc THEN Head(q) ELSE acc)

MaxVal(ml) == MaxFrom(ml, MinusHuge)

\* A floor 10 below the maximum instead of 8.
ClampFloorTen(maxVal) == maxVal - 10

\* line 108: floor := maxVal - 8.0
ClampFloor(maxVal) == maxVal - 8

\* lines 109-114: clamp to the floor, then (v + 4.0) / 4.0, kept in quarters
Compressed(ml) ==
    [j \in 1..Len(ml) |->
        (IF ml[j] < ClampFloor(MaxVal(ml)) THEN ClampFloor(MaxVal(ml)) ELSE ml[j]) + 4]

NoFraction == [num |-> 0, den |-> 1]

MelInitOf(samples) ==
    /\ audio \in SeqsUpTo(samples, WinSamples + MaxExtra)
    /\ used = <<>>
    /\ mean = NoFraction
    /\ variance = NoFraction
    /\ padded = <<>>
    /\ mel = <<>>
    /\ result = <<>>
    /\ melT = 0
    /\ mPc = "call"

MelIdle ==
    /\ audio = <<>>
    /\ used = <<>>
    /\ mean = NoFraction
    /\ variance = NoFraction
    /\ padded = <<>>
    /\ mel = <<>>
    /\ result = <<>>
    /\ melT = 0
    /\ mPc = "idle"

\* computeWhisperMel, lines 25-60 (up to the call of computeWhisperMelFromPadded)
NormalizeAudio ==
    /\ mPc = "call"
    /\ IF Len(audio) = 0
         THEN /\ result' = <<>>
              /\ mPc' = "done"
              /\ UNCHANGED <<used, mean, variance, padded>>
         ELSE /\ used' = LastWindow(audio)
              /\ mean' = MeanOf(used')
              /\ variance' = VarianceOf(used')
              /\ padded' = PaddedOf(used', mean', variance')
              /\ mPc' = "fromPadded"
              /\ UNCHANGED result
    /\ UNCHANGED <<audio, mel, melT, notMel>>

\* computeWhisperMelFromPadded, lines 64-76
AllocMel ==
    /\ mPc = "fromPadded"
    /\ IF Len(padded) # WinSamples
         THEN /\ result' = <<>>
              /\ mPc' = "done"
              /\ UNCHANGED <<mel, melT>>
         ELSE /\ mel' = [j \in 1..(NumMels * NumFrames) |-> 0]
              /\ melT' = 0
              /\ mPc' = "frames"
              /\ UNCHANGED result
    /\ UNCHANGED <<audio, used, mean, variance, padded, notMel>>

\* lines 77-98: one pass of the framing loop
FrameColumn ==
    /\ mPc = "frames"
    /\ IF melT < NumFrames /\ ~(melT * FrameHop + FrameLen > Len(padded))
         THEN /\ \E col \in ColumnsOf(padded, melT) : mel' = WithColumn(mel, melT, col)
              /\ melT' = melT + 1
              /\ UNCHANGED mPc
         ELSE /\ mPc' = "compress"
              /\ UNCHANGED <<mel, melT>>
    /\ UNCHANGED <<audio, used, mean, variance, padded, result, notMel>>

\* lines 102-115: global dynamic range compression and scaling
CompressRange ==
    /\ mPc = "compress"
    /\ result' = Compressed(mel)
    /\ mPc' = "done"
    /\ UNCHANGED <<audio, used, mean, variance, padded, mel, melT, notMel>>

MelNext == NormalizeAudio \/ AllocMel \/ FrameColumn \/ CompressRange

NormNext == NormalizeAudio \/ AllocMel

(***************************************************************************)
(* Claims C5 and C10.                                                      *)
(***************************************************************************)
SeqMaximum(q) == CHOOSE x \in {q[j] : j \in 1..Len(q)} : \A j \in 1..Len(q) : q[j] <= x

SeqMinimum(q) == CHOOSE x \in {q[j] : j \in 1..Len(q)} : \A j \in 1..Len(q) : q[j] >= x

\* max - min of the returned matrix, in quarters (8 quarters = 2.0)
OutputRange == SeqMaximum(result) - SeqMinimum(result)

\* max - min of the log-mel matrix before the clamp
LogMelSpan == SeqMaximum(mel) - SeqMinimum(mel)

Extracted == mPc = "done" /\ Len(audio) > 0

\* C5: for every non-empty input, max(output) - min(output) = 2.0.
C5_RangeIsTwo == Extracted => OutputRange = 8

\* C5 as amended: max(output) - min(output) <= 2.0, and it is 2.0 exactly
\* when the log-mel values before the clamp span at least 8.
C5_RangeAtMostTwo ==
    Extracted => /\ OutputRange <= 8
                 /\ (OutputRange = 8) <=> (LogMelSpan >= 8)

\* An input whose log-mel values span 6: the output range is 1.5.
C5_Witness == Extracted /\ LogMelSpan = 6 /\ OutputRange = 6

\* The window of the input the specification describes: its last
\* min(L, WinSamples) samples, in order.
WindowLen == IF Len(audio) > WinSamples THEN WinSamples ELSE Len(audio)

Window == [i \in 1..WindowLen |-> audio[Len(audio) - WindowLen + i]]

WindowSum == SumSeq(Window)

WindowSumSquares == SumSeq([i \in 1..WindowLen |-> Window[i] * Window[i]])

\* n^2 times the population variance of the window: n*sum(x^2) - (sum x)^2
WindowSpread == WindowLen * WindowSumSquares - WindowSum * WindowSum

Magnitude(x) == IF x < 0 THEN -x ELSE x

\* q is (x - mean)/sqrt(variance) of the window, in hundredths, truncated:
\* with d = n*x - S the value is d*sqrt(n)/sqrt(n*Spread).
IsNormalizedSample(q, x) ==
    LET d == WindowLen * x - WindowSum
    IN  IF WindowSpread = 0 THEN q = 0
        ELSE /\ (q > 0 => d > 0) /\ (q < 0 => d < 0)
             /\ q * q * WindowSpread <= d * d * 10000
             /\ d * d * 10000 < (Magnitude(q) + 1) * (Magnitude(q) + 1) * WindowSpread

\* C10: only the last WinSamples samples are used; mean and population
\* variance are those of the samples used; the normalised samples are
\* right-aligned in their order and everything left of them is exactly zero.
C10_Windowing ==
    (mPc = "fromPadded") =>
        /\ used = Window
        /\ mean.num * WindowLen = WindowSum * mean.den
        /\ variance.num * WindowLen * WindowLen = WindowSpread * variance.den
        /\ Len(padded) = WinSamples
        /\ \A i \in 1..(WinSamples - WindowLen) : padded[i] = 0
        /\ \A i \in 1..WindowLen :
               IsNormalizedSample(padded[WinSamples - WindowLen + i], Window[i])

\* A three-sample input: left padding of zeros, then the normalised samples.
C10_Witness ==
    /\ mPc = "fromPadded"
    /\ audio = <<1, 3, 0>>
    /\ padded[1] = 0
    /\ padded[WinSamples - 1] > 0
    /\ padded[WinSamples] < 0

\* An input longer than the window whose first sample is dropped.
C10_WitnessLong ==
    /\ mPc = "fromPadded"
    /\ Len(audio) = WinSamples + 1
    /\ audio[1] = 3
    /\ \A i \in 2..Len(audio) : audio[i] = (IF i = 2 THEN 1 ELSE 0)
    /\ padded[1] > 0

(***************************************************************************)
(* The resolver: downloadFile, ResolveSileroVAD, ResolveSmartTurn,         *)
(* ResolveONNXRuntimeLibWithDownload, ResolveONNXRuntimeLib.               *)
(* A path is the sequence of its components ("/" first when absolute); a   *)
(* URL is the sequence <<base, file>>, the empty sequence for "".          *)
(* The file system is POSIX: a name refers to an inode, an open file keeps *)
(* its inode when the name is removed or renamed, os.Create truncates the  *)
(* inode an existing name refers to, and a write goes to the file's own    *)
(* offset.  Every file-system call of the code is one step.                *)
(***************************************************************************)
MaxBody == 2

BundledLibDir == "lib"

DataDir == "data"

ModelsDir == "models"

urlONNXRuntimeBase == "https://github.com/yalue/onnxruntime_go/raw/refs/heads/master/test_data"

urlSileroVAD ==
    <<"https://github.com/snakers4/silero-vad/raw/refs/heads/master/src/silero_vad/data",
      "silero_vad.onnx">>

urlSmartTurn ==
    <<"https://huggingface.co/pipecat-ai/smart-turn-v3/resolve/main", "smart-turn-v3.2-cpu.onnx">>

sileroVADName == "silero_vad.onnx"

smartTurnName == "smart-turn-v3.2-cpu.onnx"

Platform(os, arch) == [os |-> os, arch |-> arch]

\* runtime.GOOS + "_" + runtime.GOARCH
bundledLibPlatform(pl) == pl.os \o "_" \o pl.arch

onnxRuntimeURL(pl) ==
    CASE bundledLibPlatform(pl) = "windows_amd64" -> <<urlONNXRuntimeBase, "onnxruntime.dll">>
      [] bundledLibPlatform(pl) = "darwin_amd64" -> <<urlONNXRuntimeBase, "onnxruntime_amd64.dylib">>
      [] bundledLibPlatform(pl) = "darwin_arm64" -> <<urlONNXRuntimeBase, "onnxruntime_arm64.dylib">>
      [] bundledLibPlatform(pl) = "linux_arm64" -> <<urlONNXRuntimeBase, "onnxruntime_arm64.so">>
      [] OTHER -> <<>>

bundledLibNames(pl) ==
    CASE pl.os = "darwin" -> <<"libonnxruntime.dylib">>
      [] pl.os = "windows" -> <<"onnxruntime.dll">>
      [] OTHER -> <<"libonnxruntime.so.1.23.2", "libonnxruntime.so">>

dataDirLibName(pl) ==
    CASE pl.os = "darwin" -> "onnxruntime_" \o pl.arch \o ".dylib"
      [] pl.os = "windows" -> "onnxruntime.dll"
      [] OTHER -> "onnxruntime_" \o pl.arch \o ".so"

\* filepath.Base of a URL
Base(url) == url[Len(url)]

\* filepath.Join: the components in order, cleaned of "." (unless nothing else)
RECURSIVE DropDots(_)
DropDots(q) ==
    IF q = <<>> THEN <<>>
    ELSE IF Head(q) = "." THEN DropDots(Tail(q))
    ELSE <<Head(q)>> \o DropDots(Tail(q))

Join(base, rest) == IF DropDots(base \o rest) = <<>> THEN <<".">> ELSE DropDots(base \o rest)

\* path + ".tmp"
TmpPath(path) == [path EXCEPT ![Len(path)] = @ \o ".tmp"]

\* os.Getwd: the working directory, or an error (the empty sequence here)
Getwd(e) == e.cwd

\* filepath.Abs: [path, err]
Abs(path, e) ==
    IF path[1] = "/" THEN [path |-> path, err |-> ""]
    ELSE IF Getwd(e) = <<>> THEN [path |-> <<>>, err |-> "getwd"]
    ELSE [path |-> Join(Getwd(e), path), err |-> ""]

\* pathExists: os.Stat(p) succeeds
pathExists(p, nm) == p \in DOMAIN nm

\* A check that never finds the file.
NeverThere(path, nm) == FALSE

\* line 38: if pathExists(path)
AlreadyThere(path, nm) == pathExists(path, nm)

\* Only the working directory, the executable's directory forgotten.
candidateBaseDirsCwdOnly(e) == <<IF e.cwd = <<>> THEN <<".">> ELSE e.cwd>>

candidateBaseDirs(e) ==
    LET cwd == IF Getwd(e) = <<>> THEN <<".">> ELSE Getwd(e)
    IN  IF e.exeDir = <<>> THEN <<cwd>>
        ELSE IF e.exeDir = cwd THEN <<cwd>>
        ELSE <<cwd, e.exeDir>>

\* the url, destDir and destName each entry point hands to downloadFile
UrlOf(e) ==
    CASE e.entry = "ResolveSileroVAD" -> urlSileroVAD
      [] e.entry = "ResolveSmartTurn" -> urlSmartTurn
      [] OTHER -> onnxRuntimeURL(e.platform)

DestName(e) ==
    CASE e.entry = "ResolveSileroVAD" -> sileroVADName
      [] e.entry = "ResolveSmartTurn" -> smartTurnName
      [] OTHER -> Base(UrlOf(e))

\* line 37: path = filepath.Join(destDir, destName)
DestPath(e) == Join(e.dir, <<DestName(e)>>)

\* the body the server sends for the URL
FullBody(e) == [i \in 1..e.urlLen |-> 1]

\* a write of one byte at offset off
WriteAt(content, off) ==
    IF off < Len(content) THEN [content EXCEPT ![off + 1] = 1]
    ELSE content \o [i \in 1..(off - Len(content)) |-> 0] \o <<1>>

\* os.Remove / the source side of os.Rename: the name goes, the inode stays
Unlink(nm, path) == [q \in (DOMAIN nm) \ {path} |-> nm[q]]

Link(nm, path, ino) == [q \in (DOMAIN nm) \cup {path} |-> IF q = path THEN ino ELSE nm[q]]

\* At most two callers run; Callers are those of the run at hand.
CallerIds == {1, 2}

Callers == DOMAIN call

NoReturn == [path |-> <<>>, err |-> "pending"]

NewCall ==
    [pc |-> "entry", path |-> <<>>, file |-> 0, n |-> 0, gets |-> 0, creates |-> 0,
     existed |-> FALSE, namesAtCall |-> <<>>, inodesAtCall |-> <<>>,
     i |-> 1, j |-> 1, dl |-> NoReturn, ret |-> NoReturn]

\* downloadFile returns (path, err); its caller returns filepath.Abs(path)
\* on success and ("", err) otherwise (lines 77-81, 87-91, 104-108)
Returned(c, path, err, e) ==
    [c EXCEPT !.pc = "done",
              !.dl = [path |-> path, err |-> err],
              !.ret = IF err = "" THEN Abs(path, e) ELSE [path |-> <<>>, err |-> err]]

\* The entry point is called.  ResolveONNXRuntimeLibWithDownload with no URL
\* for the platform turns to ResolveONNXRuntimeLib (lines 98-102).
Enter(p) ==
    /\ p \in Callers
    /\ call[p].pc = "entry"
    /\ env.sequential => \A q \in Callers : q < p => call[q].pc = "done"
    /\ call' = [call EXCEPT ![p].pc = IF UrlOf(env) = <<>> THEN "scanData" ELSE "stat"]
    /\ UNCHANGED <<env, names, inodes, notRes>>

\* downloadFile lines 37-40
CheckExists(p) ==
    /\ p \in Callers
    /\ call[p].pc = "stat"
    /\ LET c == [call[p] EXCEPT !.path = DestPath(env),
                                !.existed = AlreadyThere(DestPath(env), names),
                                !.namesAtCall = names,
                                !.inodesAtCall = inodes]
       IN  call' = [call EXCEPT ![p] =
                      IF AlreadyThere(DestPath(env), names)
                        THEN Returned(c, DestPath(env), "", env)
                        ELSE [c EXCEPT !.pc = "mkdir"]]
    /\ UNCHANGED <<env, names, inodes, notRes>>

\* lines 41-43
MkdirAll(p) ==
    /\ p \in Callers
    /\ call[p].pc = "mkdir"
    /\ \E ok \in BOOLEAN :
         call' = [call EXCEPT ![p] =
                    IF ok THEN [@ EXCEPT !.pc = "get"] ELSE Returned(@, <<>>, "mkdir", env)]
    /\ UNCHANGED <<env, names, inodes, notRes>>

\* lines 44-51: the request and its status
HttpGet(p) ==
    /\ p \in Callers
    /\ call[p].pc = "get"
    /\ \E outcome \in {"error", "status", "ok"} :
         call' = [call EXCEPT ![p] =
                    LET c == [@ EXCEPT !.gets = @ + 1]
                    IN  CASE outcome = "error" -> Returned(c, <<>>, "GET", env)
                          [] outcome = "status" -> Returned(c, <<>>, "status", env)
                          [] OTHER -> [c EXCEPT !.pc = "create"]]
    /\ UNCHANGED <<env, names, inodes, notRes>>

\* lines 52-56: os.Create(tmpPath)
CreateTmp(p) ==
    /\ p \in Callers
    /\ call[p].pc = "create"
    /\ \E ok \in BOOLEAN :
         IF ~ok
           THEN /\ call' = [call EXCEPT ![p] = Returned(@, <<>>, "create", env)]
                /\ UNCHANGED <<names, inodes>>
           ELSE IF pathExists(TmpPath(call[p].path), names)
             THEN /\ inodes' = [inodes EXCEPT ![names[TmpPath(call[p].path)]] = <<>>]
                  /\ call' = [call EXCEPT ![p].pc = "copy",
                                          ![p].file = names[TmpPath(call[p].path)],
                                          ![p].creates = @ + 1,
                                          ![p].n = 0]
                  /\ UNCHANGED names
             ELSE /\ inodes' = Append(inodes, <<>>)
                  /\ names' = Link(names, TmpPath(call[p].path), Len(inodes) + 1)
                  /\ call' = [call EXCEPT ![p].pc = "copy",
                                          ![p].file = Len(inodes) + 1,
                                          ![p].creates = @ + 1,
                                          ![p].n = 0]
    /\ UNCHANGED <<env, notRes>>

\* line 57, io.Copy: one more byte of the body reaches the file
CopyChunk(p) ==
    /\ p \in Callers
    /\ call[p].pc = "copy"
    /\ call[p].n < env.urlLen
    /\ inodes' = [inodes EXCEPT ![call[p].file] = WriteAt(@, call[p].n)]
    /\ call' = [call EXCEPT ![p].n = @ + 1]
    /\ UNCHANGED <<env, names, notRes>>

\* An empty body taken for a download.
EmptyBodyAccepted(n) == FALSE

\* line 63: n == 0
EmptyBody(n) == n = 0

\* lines 57-66: io.Copy returns (the end of the body, or a read or write
\* error at any point), then f.Close()
CopyEnd(p) ==
    /\ p \in Callers
    /\ call[p].pc = "copy"
    /\ \E failed \in BOOLEAN :
         /\ ~failed => call[p].n = env.urlLen
         /\ call' = [call EXCEPT ![p].pc =
                       IF failed THEN "removeAfterWrite"
                       ELSE IF EmptyBody(call[p].n) THEN "removeEmpty"
                       ELSE "rename"]
    /\ UNCHANGED <<env, names, inodes, notRes>>

\* lines 60-61, 64-65, 68-69: os.Remove(tmpPath) (its error dropped), return
RemoveTmp(p) ==
    /\ p \in Callers
    /\ call[p].pc \in {"removeAfterWrite", "removeEmpty", "removeAfterRename"}
    /\ names' = Unlink(names, TmpPath(call[p].path))
    /\ call' = [call EXCEPT ![p] =
                  Returned(@, <<>>,
                           CASE @.pc = "removeAfterWrite" -> "write"
                             [] @.pc = "removeEmpty" -> "empty"
                             [] OTHER -> "rename",
                           env)]
    /\ UNCHANGED <<env, inodes, notRes>>

\* lines 67-71: os.Rename(tmpPath, path)
RenameTmp(p) ==
    /\ p \in Callers
    /\ call[p].pc = "rename"
    /\ \E ok \in BOOLEAN :
         IF ok /\ pathExists(TmpPath(call[p].path), names)
           THEN /\ names' = Unlink(Link(names, call[p].path, names[TmpPath(call[p].path)]),
                                   TmpPath(call[p].path))
                /\ call' = [call EXCEPT ![p] = Returned(@, call[p].path, "", env)]
           ELSE /\ call' = [call EXCEPT ![p].pc = "removeAfterRename"]
                /\ UNCHANGED names
    /\ UNCHANGED <<env, inodes, notRes>>

\* ResolveONNXRuntimeLib lines 78-86: one pass of the data/ loop
ScanData(p) ==
    /\ p \in Callers
    /\ call[p].pc = "scanData"
    /\ LET bases == candidateBaseDirs(env)
           i == call[p].i
           cand == Join(bases[i], <<DataDir, dataDirLibName(env.platform)>>)
       IN  call' = [call EXCEPT ![p] =
                      IF i > Len(bases) THEN [@ EXCEPT !.pc = "scanLib", !.i = 1, !.j = 1]
                      ELSE IF bases[i] = <<>> THEN [@ EXCEPT !.i = i + 1]
                      ELSE IF pathExists(cand, names)
                        THEN [@ EXCEPT !.pc = "done", !.ret = [path |-> cand, err |-> ""]]
                      ELSE [@ EXCEPT !.i = i + 1]]
    /\ UNCHANGED <<env, names, inodes, notRes>>

\* ResolveONNXRuntimeLib lines 87-98: one pass of the lib/<platform>/ loops
ScanLib(p) ==
    /\ p \in Callers
    /\ call[p].pc = "scanLib"
    /\ LET bases == candidateBaseDirs(env)
           libs == bundledLibNames(env.platform)
           i == call[p].i
           j == call[p].j
           cand == Join(bases[i], <<BundledLibDir, bundledLibPlatform(env.platform), libs[j]>>)
       IN  call' = [call EXCEPT ![p] =
                      IF i > Len(bases)
                        THEN [@ EXCEPT !.pc = "done", !.ret = [path |-> <<>>, err |-> ""]]
                      ELSE IF bases[i] = <<>> \/ j > Len(libs) THEN [@ EXCEPT !.i = i + 1, !.j = 1]
                      ELSE IF pathExists(cand, names)
                        THEN [@ EXCEPT !.pc = "done", !.ret = [path |-> cand, err |-> ""]]
                      ELSE [@ EXCEPT !.j = j + 1]]
    /\ UNCHANGED <<env, names, inodes, notRes>>

DownloadNext ==
    \E p \in CallerIds :
        \/ Enter(p)
        \/ CheckExists(p)
        \/ MkdirAll(p)
        \/ HttpGet(p)
        \/ CreateTmp(p)
        \/ CopyChunk(p)
        \/ CopyEnd(p)
        \/ RemoveTmp(p)
        \/ RenameTmp(p)

LibNext ==
    \E p \in CallerIds :
        \/ Enter(p)
        \/ CheckExists(p)
        \/ MkdirAll(p)
        \/ HttpGet(p)
        \/ CreateTmp(p)
        \/ CopyChunk(p)
        \/ CopyEnd(p)
        \/ RemoveTmp(p)
        \/ RenameTmp(p)
        \/ ScanData(p)
        \/ ScanLib(p)

\* The runs tried.
DownloadTargets ==
    {[entry |-> "ResolveSileroVAD", platform |-> Platform("linux", "amd64")],
     [entry |-> "ResolveSmartTurn", platform |-> Platform("linux", "amd64")],
     [entry |-> "ResolveONNXRuntimeLibWithDownload", platform |-> Platform("linux", "arm64")],
     [entry |-> "ResolveONNXRuntimeLibWithDownload", platform |-> Platform("windows", "amd64")]}

LibTargets ==
    {[entry |-> "ResolveONNXRuntimeLibWithDownload", platform |-> pl] :
        pl \in {Platform("linux", "amd64"), Platform("windows", "arm64"),
                Platform("linux", "arm64"), Platform("darwin", "arm64")}}

WorkDir == <<"/", "work">>

ExeDirs == {<<>>, WorkDir, <<"/", "opt", "app">>}

DestDirs == {<<ModelsDir>>, <<"/", "srv", ModelsDir>>}

\* every place ResolveONNXRuntimeLib may look in
BundlePlaces(e) ==
    LET bases == {WorkDir, <<".">>, <<"/", "opt", "app">>}
        libs == bundledLibNames(e.platform)
    IN  {Join(b, <<DataDir, dataDirLibName(e.platform)>>) : b \in bases}
        \cup {Join(b, <<BundledLibDir, bundledLibPlatform(e.platform), libs[j]>>) :
                b \in bases, j \in 1..Len(libs)}

\* the files that are there before the run: the stale temporary file is
\* inode 2, every other one inode 1
OldFiles(paths, tmp) == [q \in paths |-> IF q = tmp THEN 2 ELSE 1]

ResInit(nCallers, sequential, targets, exeDirs) ==
    /\ \E t \in targets, dir \in DestDirs, cwd \in {<<>>, WorkDir}, exe \in exeDirs,
          len \in 0..MaxBody, there \in BOOLEAN :
         env = [entry |-> t.entry, platform |-> t.platform, dir |-> dir, cwd |-> cwd,
                exeDir |-> exe, sequential |-> sequential, urlLen |-> len,
                destAtStart |-> there]
    /\ IF UrlOf(env) # <<>>
         THEN \E stale \in BOOLEAN :
                names = OldFiles((IF env.destAtStart THEN {DestPath(env)} ELSE {})
                                 \cup (IF stale THEN {TmpPath(DestPath(env))} ELSE {}),
                                 TmpPath(DestPath(env)))
         ELSE /\ ~env.destAtStart
              /\ \E old \in SUBSET BundlePlaces(env) : names = OldFiles(old, <<>>)
    /\ inodes = <<<<1>>, <<1>>>>
    /\ call = [p \in 1..nCallers |-> NewCall]

ResIdle ==
    /\ env = [entry |-> ""]
    /\ names = <<>>
    /\ inodes = <<>>
    /\ call = <<>>

(***************************************************************************)
(* Claims C2, C3, C9 and C7.                                               *)
(***************************************************************************)
FinalVisible == pathExists(DestPath(env), names)

\* the final name holds the whole, non-empty body
FinalComplete ==
    /\ FinalVisible
    /\ env.urlLen > 0
    /\ inodes[names[DestPath(env)]] = [i \in 1..env.urlLen |-> 1]

Succeeded(p) == call[p].pc = "done" /\ call[p].dl.err = ""

Failed(p) == call[p].pc = "done" /\ call[p].dl.err # ""

\* C2: in one downloadFile call whose destination did not exist beforehand,
\* the final path exists only once the complete, non-empty body was written
\* to the temporary name and renamed into place, and every failure returns
\* an error with the final path still absent.
C2_NoPartialFinal ==
    ~env.destAtStart =>
        \A p \in Callers :
            /\ FinalVisible => (FinalComplete /\ Succeeded(p) /\ call[p].n = env.urlLen
                                /\ ~pathExists(TmpPath(DestPath(env)), names))
            /\ Failed(p) => ~FinalVisible
            /\ Succeeded(p) => FinalVisible

\* A download went through: the body is under the final name.
C2_Witness ==
    /\ ~env.destAtStart
    /\ Succeeded(1)
    /\ call[1].gets = 1
    /\ FinalComplete
    /\ env.urlLen = MaxBody

\* A download failed while writing: no final file.
C2_WitnessFailed ==
    /\ ~env.destAtStart
    /\ Failed(1)
    /\ call[1].dl.err = "write"
    /\ call[1].n > 0
    /\ ~FinalVisible

\* The part of C3 about one call: when the destination exists as downloadFile
\* is called, it makes no request, creates no temporary file, leaves the file
\* system as it was and returns the destination path and a nil error.
ExistingFileKept ==
    \A p \in Callers :
        (call[p].pc = "done" /\ call[p].existed) =>
            /\ call[p].gets = 0
            /\ call[p].creates = 0
            /\ names = call[p].namesAtCall
            /\ inodes = call[p].inodesAtCall
            /\ call[p].dl = [path |-> Join(env.dir, <<DestName(env)>>), err |-> ""]

BothDone == \A p \in Callers : call[p].pc = "done"

C9_NoIncompleteFinal ==
    ~env.destAtStart =>
        /\ FinalVisible => FinalComplete
        /\ \A p \in Callers : Succeeded(p) => FinalComplete

\* The two halves of C9, each on its own.
C9_FinalNeverIncomplete == (~env.destAtStart /\ FinalVisible) => FinalComplete

C9_SuccessMeansComplete ==
    ~env.destAtStart => \A p \in Callers : Succeeded(p) => FinalComplete

\* The places the specification names for a bundled runtime, in its order:
\* data/<platform-tagged name> under every base directory, then
\* lib/<os>_<arch>/<standard name> under every base directory.
ExpectedBases ==
    LET cwd == IF env.cwd = <<>> THEN <<>> ELSE env.cwd
    IN  IF env.exeDir = <<>> \/ env.exeDir = env.cwd THEN <<cwd>> ELSE <<cwd, env.exeDir>>

ExpectedDataName ==
    CASE env.platform = [os |-> "linux", arch |-> "amd64"] -> "onnxruntime_amd64.so"
      [] env.platform = [os |-> "windows", arch |-> "arm64"] -> "onnxruntime.dll"

ExpectedLibNames ==
    CASE env.platform = [os |-> "linux", arch |-> "amd64"] ->
             <<"libonnxruntime.so.1.23.2", "libonnxruntime.so">>
      [] env.platform = [os |-> "windows", arch |-> "arm64"] -> <<"onnxruntime.dll">>

ExpectedLibDir ==
    CASE env.platform = [os |-> "linux", arch |-> "amd64"] -> "linux_amd64"
      [] env.platform = [os |-> "windows", arch |-> "arm64"] -> "windows_arm64"

ExpectedPlaces ==
    LET nb == Len(ExpectedBases)
        nl == Len(ExpectedLibNames)
    IN  [k \in 1..nb |-> ExpectedBases[k] \o <<"data", ExpectedDataName>>]
        \o [k \in 1..(nb * nl) |->
              ExpectedBases[((k - 1) \div nl) + 1]
                \o <<"lib", ExpectedLibDir, ExpectedLibNames[((k - 1) % nl) + 1]>>]

ExpectedLib ==
    LET found == {k \in 1..Len(ExpectedPlaces) : ExpectedPlaces[k] \in DOMAIN names}
    IN  IF found = {} THEN <<>>
        ELSE ExpectedPlaces[CHOOSE k \in found : \A j \in found : k <= j]

NoDownloadURL ==
    /\ env.entry = "ResolveONNXRuntimeLibWithDownload"
    /\ env.platform \in {[os |-> "linux", arch |-> "amd64"], [os |-> "windows", arch |-> "arm64"]}

\* C7: with no download URL for the platform, ResolveONNXRuntimeLibWithDownload
\* makes no request and returns nil and the first existing place in the
\* fixed order, the empty path exactly when none exists; a non-empty result
\* is a path that exists.
C7_BundledLibFirstExisting ==
    \A p \in Callers :
        (NoDownloadURL /\ call[p].pc = "done") =>
            /\ call[p].gets = 0
            /\ call[p].creates = 0
            /\ call[p].ret.err = ""
            /\ call[p].ret.path = ExpectedLib
            /\ (call[p].ret.path = <<>>) <=>
                   (\A k \in 1..Len(ExpectedPlaces) : ExpectedPlaces[k] \notin DOMAIN names)
            /\ call[p].ret.path # <<>> => call[p].ret.path \in DOMAIN names

\* The library is found in the last place looked at.
C7_Witness ==
    /\ NoDownloadURL
    /\ call[1].pc = "done"
    /\ call[1].ret = [path |-> <<"/", "opt", "app", "lib", "linux_amd64", "libonnxruntime.so">>,
                      err |-> ""]

\* Nothing is bundled: the empty result.
C7_WitnessNone ==
    /\ NoDownloadURL
    /\ call[1].pc = "done"
    /\ call[1].ret = [path |-> <<>>, err |-> ""]

(***************************************************************************)
(* validateConfig                                                          *)
(***************************************************************************)
RequiredSampleRate == 16000

RequiredChunkSize == 512

\* An error value: the message, and the path appended to it (if any).
Error(msg, path) == [msg |-> msg, path |-> path]

NoError == Error("", "")

\* os.Stat on the paths a configuration may name: "nil" (the file is there),
\* "notexist" (os.IsNotExist(err)), or another error (permission denied).
Stat(path) ==
    CASE path = "silero_vad.onnx" -> "nil"
      [] path = "smart-turn-v3.2-cpu.onnx" -> "nil"
      [] path = "denied.onnx" -> "eacces"
      [] OTHER -> "notexist"

validateConfig(c) ==
    IF c.SampleRate # RequiredSampleRate
      THEN Error("config: SampleRate must be 16000", "")
    ELSE IF c.ChunkSize # RequiredChunkSize
      THEN Error("config: ChunkSize must be 512", "")
    ELSE IF FLess(c.VadThreshold, F(0)) \/ FGreater(c.VadThreshold, F(10))
      THEN Error("config: VadThreshold must be in [0, 1]", "")
    ELSE IF c.VadPreSpeechMs < 0
      THEN Error("config: VadPreSpeechMs must be >= 0", "")
    ELSE IF c.VadStopMs <= 0
      THEN Error("config: VadStopMs must be > 0", "")
    ELSE IF FLessEq(c.TurnMaxDurationSeconds, F(0))
      THEN Error("config: TurnMaxDurationSeconds must be > 0", "")
    ELSE IF c.TurnSegmentEmitMs <= 0
      THEN Error("config: TurnSegmentEmitMs must be > 0", "")
    ELSE IF FLess(c.TurnThreshold, F(0)) \/ FGreater(c.TurnThreshold, F(10))
      THEN Error("config: TurnThreshold must be in [0, 1]", "")
    ELSE IF c.TurnTimeoutMs <= 0
      THEN Error("config: TurnTimeoutMs must be > 0", "")
    ELSE IF c.SileroVADModelPath = ""
      THEN Error("config: SileroVADModelPath is required", "")
    ELSE IF c.SmartTurnModelPath = ""
      THEN Error("config: SmartTurnModelPath is required", "")
    ELSE IF Stat(c.SileroVADModelPath) # "nil"
      THEN IF Stat(c.SileroVADModelPath) = "notexist"
             THEN Error("config: Silero VAD model file not found: ", c.SileroVADModelPath)
             ELSE Error("stat: permission denied", c.SileroVADModelPath)
    ELSE IF Stat(c.SmartTurnModelPath) # "nil"
      THEN IF Stat(c.SmartTurnModelPath) = "notexist"
             THEN Error("config: Smart-Turn model file not found: ", c.SmartTurnModelPath)
             ELSE Error("stat: permission denied", c.SmartTurnModelPath)
    ELSE NoError

\* The configurations tried: every field takes its valid value(s) and values
\* on each side of every comparison of validateConfig.
Configs ==
    [ SampleRate : {16000, 44100},
      ChunkSize : {512, 256},
      VadThreshold : {F(-1), F(0), F(10), F(15), NaN},
      VadPreSpeechMs : {-1, 0},
      VadStopMs : {0, 800},
      TurnMaxDurationSeconds : {F(0), F(6000), NaN},
      TurnSegmentEmitMs : {0, 1000},
      TurnThreshold : {F(-1), F(9), F(15), NaN},
      TurnTimeoutMs : {0, 1000},
      SileroVADModelPath : {"", "silero_vad.onnx", "missing.onnx"},
      SmartTurnModelPath : {"", "smart-turn-v3.2-cpu.onnx", "missing.onnx", "denied.onnx"} ]

CfgInit ==
    /\ cfg \in Configs
    /\ cfgPc = "call"
    /\ cfgErr = NoError

CfgIdle ==
    /\ cfg = [SampleRate |-> 0]
    /\ cfgPc = "idle"
    /\ cfgErr = NoError

\* New(cfg, cb) hands the configuration to validateConfig once.
Validate ==
    /\ cfgPc = "call"
    /\ cfgErr' = validateConfig(cfg)
    /\ cfgPc' = "done"
    /\ UNCHANGED <<cfg, notCfg>>

(***************************************************************************)
(* Claim C1.  The constraints as the specification states them, in its     *)
(* order; a number lies in [0, 1] (or is > 0) only if it is a number.      *)
(***************************************************************************)
InUnitInterval(f) == ~f.nan /\ f.x >= 0 /\ f.x <= 10

IsPositive(f) == ~f.nan /\ f.x > 0

FileExists(path) == Stat(path) = "nil"

ConstraintHolds(c, k) ==
    CASE k = 1 -> c.SampleRate = 16000
      [] k = 2 -> c.ChunkSize = 512
      [] k = 3 -> InUnitInterval(c.VadThreshold)
      [] k = 4 -> c.VadPreSpeechMs >= 0
      [] k = 5 -> c.VadStopMs > 0
      [] k = 6 -> IsPositive(c.TurnMaxDurationSeconds)
      [] k = 7 -> c.TurnSegmentEmitMs > 0
      [] k = 8 -> InUnitInterval(c.TurnThreshold)
      [] k = 9 -> c.TurnTimeoutMs > 0
      [] k = 10 -> c.SileroVADModelPath # "" /\ c.SmartTurnModelPath # ""
      [] k = 11 -> FileExists(c.SileroVADModelPath) /\ FileExists(c.SmartTurnModelPath)

ConstraintIds == 1..11

AllConstraintsHold(c) == \A k \in ConstraintIds : ConstraintHolds(c, k)

FirstViolated(c) ==
    CHOOSE k \in ConstraintIds :
        /\ ~ConstraintHolds(c, k)
        /\ \A j \in 1..(k - 1) : ConstraintHolds(c, j)

\* The constraint an error message reports (0 for no error).
ConstraintOfError(e) ==
    CASE e.msg = "" -> 0
      [] e.msg = "config: SampleRate must be 16000" -> 1
      [] e.msg = "config: ChunkSize must be 512" -> 2
      [] e.msg = "config: VadThreshold must be in [0, 1]" -> 3
      [] e.msg = "config: VadPreSpeechMs must be >= 0" -> 4
      [] e.msg = "config: VadStopMs must be > 0" -> 5
      [] e.msg = "config: TurnMaxDurationSeconds must be > 0" -> 6
      [] e.msg = "config: TurnSegmentEmitMs must be > 0" -> 7
      [] e.msg = "config: TurnThreshold must be in [0, 1]" -> 8
      [] e.msg = "config: TurnTimeoutMs must be > 0" -> 9
      [] e.msg = "config: SileroVADModelPath is required" -> 10
      [] e.msg = "config: SmartTurnModelPath is required" -> 10
      [] OTHER -> 11

\* C1: validateConfig returns nil exactly when every constraint holds, and
\* otherwise the error of the first violated constraint in the fixed order.
C1_FirstViolatedReported ==
    cfgPc = "done" =>
        /\ (cfgErr = NoError) <=> AllConstraintsHold(cfg)
        /\ cfgErr # NoError => ConstraintOfError(cfgErr) = FirstViolated(cfg)

\* The same statement for the configurations whose float fields are numbers.
HasNaN(c) == c.VadThreshold.nan \/ c.TurnMaxDurationSeconds.nan \/ c.TurnThreshold.nan

C1_HoldsWithoutNaN ==
    (cfgPc = "done" /\ ~HasNaN(cfg)) =>
        /\ (cfgErr = NoError) <=> AllConstraintsHold(cfg)
        /\ cfgErr # NoError => ConstraintOfError(cfgErr) = FirstViolated(cfg)

\* A NaN threshold passes validation.
C1_NaNAccepted == cfgPc = "done" /\ cfg.VadThreshold.nan /\ cfgErr = NoError

(***************************************************************************)
(* Specifications, one per part.                                           *)
(***************************************************************************)
ConfigInit == CfgInit /\ CacheIdle /\ LenIdle /\ MelIdle /\ ResIdle

ConfigNext == Validate

SpecConfig == ConfigInit /\ [][ConfigNext]_vars

CacheStart == CacheInit /\ CfgIdle /\ LenIdle /\ MelIdle /\ ResIdle

SpecCache == CacheStart /\ [][CacheNext]_vars

LenStart == LenInit /\ CfgIdle /\ CacheIdle /\ MelIdle /\ ResIdle

SpecLengths == LenStart /\ [][LenNext]_vars

MelStart == MelInitOf(MelSampleValues) /\ CfgIdle /\ CacheIdle /\ LenIdle /\ ResIdle

SpecMel == MelStart /\ [][MelNext]_vars

NormStart == MelInitOf(NormSampleValues) /\ CfgIdle /\ CacheIdle /\ LenIdle /\ ResIdle

SpecNormalize == NormStart /\ [][NormNext]_vars

NotResolver == CfgIdle /\ CacheIdle /\ LenIdle /\ MelIdle

\* one call of an entry point that downloads
DownloadStart == ResInit(1, TRUE, DownloadTargets, {<<>>}) /\ NotResolver

SpecDownload == DownloadStart /\ [][DownloadNext]_vars

\* two calls of the same entry point, one after the other
TwiceStart == ResInit(2, TRUE, DownloadTargets, {<<>>}) /\ NotResolver

SpecTwice == TwiceStart /\ [][DownloadNext]_vars

\* two calls of the same entry point at the same time
ConcurrentStart == ResInit(2, FALSE, DownloadTargets, {<<>>}) /\ NotResolver

SpecConcurrent == ConcurrentStart /\ [][DownloadNext]_vars

\* one call of ResolveONNXRuntimeLibWithDownload, on platforms with and without a URL
LibStart == ResInit(1, TRUE, LibTargets, ExeDirs) /\ NotResolver

SpecLib == LibStart /\ [][LibNext]_vars

====
